---------------------------- MODULE Spec2Model ----------------------------
(***************************************************************************)
(* Model of the question -> SQL -> answer pipeline of data_assistant_ai.   *)
(*                                                                         *)
(* The specifications share the variables below:                           *)
(*   SpecChunk   chunk_schema applied to bounded schema texts              *)
(*   SpecSelect  analyze_table_name_pattern / get_relevant_tables applied  *)
(*               to bounded table lists and questions                      *)
(*   SpecClassify  analyze_table_name_pattern applied to single names      *)
(*   Spec        a Streamlit session: page reruns, the one-time RAG set-up *)
(*               and requests handled by process_query /                  *)
(*               handle_query_and_response                                 *)
(*   SpecGather  get_schema and the question -> SQL chain called directly  *)
(*   SpecExtract  the DATA: block of handle_query_and_response applied to  *)
(*               bounded answer texts                                      *)
(*   SpecRag     process_query_with_rag called directly                    *)
(*                                                                         *)
(* Text is a sequence of tokens.  In schema text the token "CT" is the     *)
(* 12-character literal 'CREATE TABLE', "WS" is one whitespace character   *)
(* and every other token is a block of non-blank characters that does not  *)
(* contain the literal.  Table names and questions are sequences of        *)
(* single characters.  In an answer text "DATA:" is the marker literal,    *)
(* "NL" a newline, "p" a run of prose, and a payload is made of "[", "]"   *)
(* and one token per list item.                                            *)
(***************************************************************************)
EXTENDS Integers, Sequences, FiniteSets, TLC

VARIABLES
    \* ---- SpecChunk
    schema,          \* input text of chunk_schema
    max_chunks,      \* input max_chunks of chunk_schema
    chunks,          \* value returned by chunk_schema
    cpc,             \* "idle" | "ready" | "done"
    \* ---- SpecSelect
    table_names,     \* input list of analyze_table_name_pattern
    patterns,        \* dict returned by analyze_table_name_pattern, as the
                     \* sequence of its entries in insertion order
    question,        \* input question of get_relevant_tables
    relevant,        \* value returned by get_relevant_tables, as a set
    spc,             \* "idle" | "ready" | "analyzed" | "selected"
    \* ---- Spec (one Streamlit session)
    db,              \* module-level db/engine of database.py: "connected" | "none"
    config_key,      \* whether config.OPENAI_API_KEY holds a key
    api_key,         \* st.session_state['OPENAI_API_KEY']: "absent" | "None" | "set"
    table_info,      \* st.session_state['table_info']: "absent" | "empty" | "full"
    session_keys,    \* the keys present in st.session_state
    rag_initialized, \* st.session_state['rag_initialized'] (FALSE while absent)
    vector_store,    \* st.session_state['vector_store']: "none" | "faiss"
    rag_builds,      \* how many times the body of initialize_rag_components ran
    last_context,    \* st.session_state['last_context'] (<<>> while absent)
    history,         \* st.session_state['history'] (<<>> while absent)
    debug_logs,      \* st.session_state['debug_logs'] (<<>> while absent)
    call,            \* the last call of handle_query_and_response: its
                     \* arguments, what the environment did, what it sent to
                     \* the language model and to run_query, what it returned
    \* ---- SpecGather (get_schema and the question -> SQL chain, called
    \*      directly)
    chain_input,     \* the dict given to the call: question, selected_tables
    schema_text,     \* the text returned by get_schema
    sql_prompt,      \* the prompt variables sent to the language model, as a
                     \* sequence of zero or one record
    sql_out,         \* the string returned by sql_chain.invoke
    gpc,             \* "idle" | "ready" | "schema" | "sql"
    \* ---- SpecExtract (the DATA: block of an answer text)
    answer_text,     \* the text returned by full_chain.invoke
    extracted,       \* the response text and visualization data made of it
    xpc,             \* "idle" | "ready" | "done"
    \* ---- SpecRag (process_query_with_rag called directly)
    rag_in,          \* what the call reads: the session's rag_initialized,
                     \* the documents of the vector store, selected_tables
    rag_out,         \* the documents retrieved, the passages put in the
                     \* prompt, and the dict returned
    rpc              \* "idle" | "ready" | "done"

cvars == <<schema, max_chunks, chunks, cpc>>

svars == <<table_names, patterns, question, relevant, spc>>

session == <<db, config_key, api_key, table_info, session_keys, rag_initialized,
             vector_store, rag_builds, last_context, history, debug_logs, call>>

gvars == <<chain_input, schema_text, sql_prompt, sql_out, gpc>>

xvars == <<answer_text, extracted, xpc>>

rvars == <<rag_in, rag_out, rpc>>

vars == <<cvars, svars, session, gvars, xvars, rvars>>

Range(seq) == {seq[i] : i \in 1..Len(seq)}

(***************************************************************************)
(* The value of each group of variables while its specification is not the *)
(* one being run                                                           *)
(***************************************************************************)
ChunkIdle ==
    /\ schema = <<>>
    /\ max_chunks = 0
    /\ chunks = <<>>
    /\ cpc = "idle"

SelectIdle ==
    /\ table_names = <<>>
    /\ patterns = <<>>
    /\ question = <<>>
    /\ relevant = {}
    /\ spc = "idle"

NoCall ==
    [active |-> FALSE, question |-> "", selected_tables |-> <<>>, env_ok |-> FALSE,
     rag_used |-> FALSE, raised |-> "none", result |-> [question |-> ""],
     sql_prompts |-> <<>>, executed |-> <<>>]

SessionIdle ==
    /\ db = "none"
    /\ config_key = FALSE
    /\ api_key = "absent"
    /\ table_info = "absent"
    /\ session_keys = {}
    /\ rag_initialized = FALSE
    /\ vector_store = "none"
    /\ rag_builds = 0
    /\ last_context = <<>>
    /\ history = <<>>
    /\ debug_logs = <<>>
    /\ call = NoCall

NoInput == [question |-> <<>>, selected_tables |-> <<>>]

GatherIdle ==
    /\ chain_input = NoInput
    /\ schema_text = <<>>
    /\ sql_prompt = <<>>
    /\ sql_out = ""
    /\ gpc = "idle"

ExtractIdle ==
    /\ answer_text = <<>>
    /\ extracted = [response |-> <<>>,
                    visualization_data |-> [is_none |-> TRUE, rows |-> <<>>],
                    exc |-> "none"]
    /\ xpc = "idle"

NoRagInput ==
    [question |-> "", rag_initialized |-> FALSE, docs |-> <<>>,
     selected_tables |-> <<>>, llm_out |-> ""]

NoRagOutput ==
    [retrieved |-> <<>>, prompt_context |-> <<>>, saved |-> <<>>,
     response |-> [question |-> ""]]

RagIdle ==
    /\ rag_in = NoRagInput
    /\ rag_out = NoRagOutput
    /\ rpc = "idle"

(***************************************************************************)
(* Generic sequence helpers                                                *)
(***************************************************************************)
RECURSIVE SeqsUpTo(_, _)
\* every sequence over S of length at most n
SeqsUpTo(S, n) ==
    IF n = 0 THEN {<<>>}
    ELSE LET shorter == SeqsUpTo(S, n - 1)
         IN  shorter \cup {Append(s, x) : s \in {t \in shorter : Len(t) = n - 1}, x \in S}

RECURSIVE Flatten(_)
\* ''.join(list_of_texts)
Flatten(ss) ==
    IF ss = <<>> THEN <<>> ELSE Head(ss) \o Flatten(Tail(ss))

(***************************************************************************)
(* src/utils/schema_utils.py : chunk_schema                                *)
(***************************************************************************)
IsBlankTok(tok) == tok \in {"WS", "NL"}

\* chunk.strip(): the text without its leading and trailing whitespace
RECURSIVE LStrip(_)
LStrip(text) ==
    IF text # <<>> /\ IsBlankTok(Head(text)) THEN LStrip(Tail(text)) ELSE text

RECURSIVE RStrip(_)
RStrip(text) ==
    IF text # <<>> /\ IsBlankTok(text[Len(text)])
    THEN RStrip(SubSeq(text, 1, Len(text) - 1))
    ELSE text

Strip(text) == RStrip(LStrip(text))

\* schema.split('CREATE TABLE'): the pieces between the occurrences of the
\* literal, empty pieces included; one piece more than there are literals
RECURSIVE SplitAcc(_, _, _, _)
SplitAcc(text, sep, cur, acc) ==
    IF text = <<>> THEN Append(acc, cur)
    ELSE IF Head(text) = sep
         THEN SplitAcc(Tail(text), sep, <<>>, Append(acc, cur))
         ELSE SplitAcc(Tail(text), sep, Append(cur, Head(text)), acc)

\* text.split(sep) for a literal sep
Split(text, sep) == SplitAcc(text, sep, <<>>, <<>>)

SplitCreateTable(text) == Split(text, "CT")

\* [chunk for chunk in table_chunks if chunk.strip()]
CleanChunks(text) ==
    SelectSeq(SplitCreateTable(text), LAMBDA piece : Strip(piece) # <<>>)

\* the grouping loop of chunk_schema: state (result_chunks, current_chunk,
\* current_size), one iteration per table, then the trailing flush
RECURSIVE ChunkLoop(_, _, _, _, _)
ChunkLoop(tables, chunk_size, result_chunks, current_chunk, current_size) ==
    IF tables = <<>>
    THEN IF current_chunk # <<>>
         THEN Append(result_chunks, <<"CT">> \o Flatten(current_chunk))
         ELSE result_chunks
    ELSE IF current_size >= chunk_size /\ current_chunk # <<>>
         THEN ChunkLoop(Tail(tables), chunk_size,
                        Append(result_chunks, <<"CT">> \o Flatten(current_chunk)),
                        <<Head(tables)>>, 1)
         ELSE ChunkLoop(Tail(tables), chunk_size, result_chunks,
                        Append(current_chunk, Head(tables)), current_size + 1)

\* chunk_size = len(clean_chunks) // max_chunks, raised to 1 when below it
ChunkSize(n, maxc) == IF n \div maxc < 1 THEN 1 ELSE n \div maxc

\* chunk_schema with the threshold test written '<' for '<='
chunk_schema_StrictThreshold(text, maxc) ==
    IF text = <<>> THEN <<>>
    ELSE LET clean_chunks == CleanChunks(text)
         IN  IF Len(clean_chunks) < maxc THEN <<text>>
             ELSE IF maxc = 0
                  THEN <<text>>
                  ELSE ChunkLoop(clean_chunks, ChunkSize(Len(clean_chunks), maxc),
                                 <<>>, <<>>, 0)

chunk_schema(text, maxc) ==
    IF text = <<>> THEN <<>>
    ELSE LET clean_chunks == CleanChunks(text)
         IN  IF Len(clean_chunks) <= maxc THEN <<text>>
             ELSE IF maxc = 0
                  THEN <<text>>    \* ZeroDivisionError, caught: [schema]
                  ELSE ChunkLoop(clean_chunks, ChunkSize(Len(clean_chunks), maxc),
                                 <<>>, <<>>, 0)

(***************************************************************************)
(* src/utils/schema_utils.py : analyze_table_name_pattern                  *)
(* A table name and a question are sequences of one-character strings.     *)
(***************************************************************************)
Digits == {"0", "1", "2", "3", "4", "5", "6", "7", "8", "9"}

IsDigit(c) == c \in Digits

SuffixLen == 6

\* re.search(r'(\d{6})$', table): the name ends in six digits
HasPeriodSuffix(table) ==
    /\ Len(table) >= SuffixLen
    /\ \A i \in (Len(table) - SuffixLen + 1)..Len(table) : IsDigit(table[i])

\* table[:match.start()]
BaseName(table) == SubSeq(table, 1, Len(table) - SuffixLen)

\* position of key k in the dict, 0 when k is not a key
KeyIndex(pats, k) ==
    IF \E i \in 1..Len(pats) : pats[i].key = k
    THEN CHOOSE i \in 1..Len(pats) : pats[i].key = k
    ELSE 0

\* patterns[k] = entry: a new key goes last, an existing key keeps its place
SetEntry(pats, k, entry) ==
    IF KeyIndex(pats, k) = 0 THEN Append(pats, entry)
    ELSE [pats EXCEPT ![KeyIndex(pats, k)] = entry]

\* the body of the loop of analyze_table_name_pattern for one table
AnalyzeOne(pats, table) ==
    IF HasPeriodSuffix(table)
    THEN LET base_name == BaseName(table)
             withKey == IF KeyIndex(pats, base_name) = 0
                        THEN Append(pats, [key |-> base_name, type |-> "temporal",
                                           tables |-> <<>>])
                        ELSE pats
             i == KeyIndex(withKey, base_name)
         IN  [withKey EXCEPT ![i].tables = Append(@, table)]
    ELSE SetEntry(pats, table, [key |-> table, type |-> "static", tables |-> <<table>>])

RECURSIVE AnalyzeLoop(_, _)
AnalyzeLoop(pats, names) ==
    IF names = <<>> THEN pats
    ELSE AnalyzeLoop(AnalyzeOne(pats, Head(names)), Tail(names))

analyze_table_name_pattern(names) == AnalyzeLoop(<<>>, names)

(***************************************************************************)
(* src/utils/schema_utils.py : get_relevant_tables                         *)
(***************************************************************************)
DateSeparators == {"-", "/"}

DigitsAt(q, i, n) ==
    /\ i + n - 1 <= Len(q)
    /\ \A j \in i..(i + n - 1) : IsDigit(q[j])

\* re.findall(r'(\d{4})[-/]?(\d{2})', question): the non-overlapping matches
\* from left to right, each as (year, month)
RECURSIVE FindDates(_, _)
FindDates(q, i) ==
    IF i > Len(q) THEN <<>>
    ELSE IF DigitsAt(q, i, 4) /\ i + 4 <= Len(q) /\ q[i + 4] \in DateSeparators
            /\ DigitsAt(q, i + 5, 2)
         THEN <<[year |-> SubSeq(q, i, i + 3), month |-> SubSeq(q, i + 5, i + 6)]>>
                  \o FindDates(q, i + 7)
         ELSE IF DigitsAt(q, i, 6)
              THEN <<[year |-> SubSeq(q, i, i + 3), month |-> SubSeq(q, i + 4, i + 5)]>>
                       \o FindDates(q, i + 6)
              ELSE FindDates(q, i + 1)

DateMatches(q) == FindDates(q, 1)

\* pattern = f"{base_name}{year}{month}", year only
DatePattern_YearOnly(base_name, ym) == base_name \o ym.year

\* pattern = f"{base_name}{year}{month}"
DatePattern(base_name, ym) == base_name \o ym.year \o ym.month

\* pattern in t
Contains(t, pat) ==
    \E i \in 1..(Len(t) - Len(pat) + 1) : SubSeq(t, i, i + Len(pat) - 1) = pat

\* the characters in use, in code-point order
CharOrder ==
    <<"-", "/", "0", "1", "2", "3", "4", "5", "6", "7", "8", "9", "c", "g", "i", "o",
      "s", "t", "x", "z">>

Ord(c) == CHOOSE i \in 1..Len(CharOrder) : CharOrder[i] = c

\* a < b for two str values
RECURSIVE LexLess(_, _)
LexLess(a, b) ==
    IF a = <<>> THEN b # <<>>
    ELSE IF b = <<>> THEN FALSE
    ELSE IF Head(a) = Head(b) THEN LexLess(Tail(a), Tail(b))
    ELSE Ord(Head(a)) < Ord(Head(b))

RecentCount == 3

\* sorted(tables)[:3]: the first three instead of the last three
LastSorted_First(tables) ==
    LET sorted_tables == SortSeq(tables, LexLess)
        n == Len(sorted_tables)
    IN  SubSeq(sorted_tables, 1, IF n > RecentCount THEN RecentCount ELSE n)

\* sorted(tables)[-3:]
LastSorted(tables) ==
    LET sorted_tables == SortSeq(tables, LexLess)
        n == Len(sorted_tables)
    IN  SubSeq(sorted_tables, IF n > RecentCount THEN n - RecentCount + 1 ELSE 1, n)

\* [t for t in info['tables'] if pattern in t] for every date match in turn
RECURSIVE MatchingForDates(_, _)
MatchingForDates(info, date_matches) ==
    IF date_matches = <<>> THEN <<>>
    ELSE SelectSeq(info.tables,
                   LAMBDA t : Contains(t, DatePattern(info.key, Head(date_matches))))
             \o MatchingForDates(info, Tail(date_matches))

\* static tables added only when the question holds no date
SelectForEntry_StaticUnlessDated(info, q) ==
    IF info.type = "temporal"
    THEN IF DateMatches(q) # <<>>
         THEN MatchingForDates(info, DateMatches(q))
         ELSE LastSorted(info.tables)
    ELSE IF DateMatches(q) # <<>> THEN <<>> ELSE info.tables

\* what one entry of the dict adds to relevant_tables
SelectForEntry(info, q) ==
    IF info.type = "temporal"
    THEN IF DateMatches(q) # <<>>
         THEN MatchingForDates(info, DateMatches(q))
         ELSE LastSorted(info.tables)
    ELSE info.tables

RECURSIVE SelectLoop(_, _)
SelectLoop(pats, q) ==
    IF pats = <<>> THEN <<>>
    ELSE SelectForEntry(Head(pats), q) \o SelectLoop(Tail(pats), q)

RECURSIVE AllTablesOf(_)
AllTablesOf(pats) ==
    IF pats = <<>> THEN <<>> ELSE Head(pats).tables \o AllTablesOf(Tail(pats))

\* lines 72-79 left out: an empty selection stays empty
get_relevant_tables_NoFallback(pats, q) ==
    IF pats = <<>> THEN {} ELSE Range(SelectLoop(pats, q))

get_relevant_tables(pats, q) ==
    IF pats = <<>> THEN {}
    ELSE LET relevant_tables == SelectLoop(pats, q)
         IN  IF relevant_tables = <<>>
             THEN Range(LastSorted(AllTablesOf(pats)))
             ELSE Range(relevant_tables)

(***************************************************************************)
(* SpecSelect: the selector on bounded table lists and questions           *)
(***************************************************************************)
MaxTables == 4

MaxQWords == 3

Y2023 == <<"2", "0", "2", "3">>

\* the table names the lists are drawn from: four periods of group "s", one
\* period of group "o", a static table named like the base of group "s",
\* and another static table
TableUniverse ==
    { <<"s">> \o Y2023 \o <<"0", "1">>, <<"s">> \o Y2023 \o <<"0", "6">>,
      <<"s">> \o Y2023 \o <<"1", "1">>, <<"s">> \o Y2023 \o <<"1", "2">>,
      <<"o">> \o Y2023 \o <<"0", "6">>, <<"s">>, <<"c">> }

RECURSIVE SortedSeqOf(_)
\* the names of a set in ascending order
SortedSeqOf(S) ==
    IF S = {} THEN <<>>
    ELSE LET least == CHOOSE a \in S : \A b \in S \ {a} : LexLess(a, b)
         IN  <<least>> \o SortedSeqOf(S \ {least})

Reverse(seq) == [i \in 1..Len(seq) |-> seq[Len(seq) + 1 - i]]

\* lists of distinct table names, ascending or descending
TableLists ==
    LET sets == {S \in SUBSET TableUniverse : Cardinality(S) <= MaxTables}
    IN  {SortedSeqOf(S) : S \in sets} \cup {Reverse(SortedSeqOf(S)) : S \in sets}

QuestionWords == {Y2023, <<"0", "6">>, <<"1", "2">>, <<"-">>, <<"x">>}

\* the questions: up to MaxQWords words, concatenated
Questions == {Flatten(ws) : ws \in SeqsUpTo(QuestionWords, MaxQWords)}

InitSelect ==
    /\ ChunkIdle
    /\ SessionIdle
    /\ GatherIdle
    /\ ExtractIdle
    /\ RagIdle
    /\ table_names \in TableLists
    /\ patterns = <<>>
    /\ question = <<>>
    /\ relevant = {}
    /\ spc = "ready"

\* patterns = analyze_table_name_pattern(table_names)
Analyze ==
    /\ spc = "ready"
    /\ patterns' = analyze_table_name_pattern(table_names)
    /\ spc' = "analyzed"
    /\ UNCHANGED <<table_names, question, relevant, cvars, session, gvars, xvars, rvars>>

\* get_relevant_tables(patterns, q) for a question q
Select ==
    /\ spc = "analyzed"
    /\ \E q \in Questions :
          /\ question' = q
          /\ relevant' = get_relevant_tables(patterns, q)
    /\ spc' = "selected"
    /\ UNCHANGED <<table_names, patterns, cvars, session, gvars, xvars, rvars>>

NextSelect == Analyze \/ Select

SpecSelect == InitSelect /\ [][NextSelect]_vars

\* the six-digit period suffix of a period table
PeriodSuffix(t) == SubSeq(t, Len(t) - SuffixLen + 1, Len(t))

\* the YYYYMM values of the year+month tokens of a question
DateTokens(q) == {DateMatches(q)[i].year \o DateMatches(q)[i].month :
                     i \in 1..Len(DateMatches(q))}

\* the period tables of a group whose suffix is a date token of the question
MatchingPeriods(info, q) ==
    {t \in Range(info.tables) : PeriodSuffix(t) \in DateTokens(q)}

\* the per-group rules select something: a static table exists, or a period
\* table of some temporal group matches a date token
PerGroupSelectionNonEmpty ==
    \E i \in 1..Len(patterns) :
        \/ patterns[i].type = "static"
        \/ MatchingPeriods(patterns[i], question) # {}

\* the three lexicographically-last names of a set (all when fewer)
LastThreeOf(S) ==
    {t \in S : Cardinality({u \in S : LexLess(t, u)}) < RecentCount}

\* C10 as claimed: when the question holds a year+month token, what is
\* selected from each temporal group is exactly its period tables with that
\* YYYYMM suffix.
C10_DateTokenPrecedence_Claimed ==
    (spc = "selected" /\ DateMatches(question) # <<>>)
        => \A i \in 1..Len(patterns) :
              patterns[i].type = "temporal"
                  => relevant \cap Range(patterns[i].tables)
                         = MatchingPeriods(patterns[i], question)

\* C10 (amended): when the question holds a year+month token and the
\* per-group rules select at least one table, what is selected from each
\* temporal group is exactly its period tables with that YYYYMM suffix; when
\* they select nothing, the result is the three lexicographically-last
\* tables of all groups together.
C10_DateTokenPrecedence ==
    (spc = "selected" /\ DateMatches(question) # <<>>)
        => IF PerGroupSelectionNonEmpty
           THEN \A i \in 1..Len(patterns) :
                   patterns[i].type = "temporal"
                       => relevant \cap Range(patterns[i].tables)
                              = MatchingPeriods(patterns[i], question)
           ELSE relevant = LastThreeOf(Range(table_names))

\* four periods of group "s", question "2023-06": exactly s202306
C10_Witness ==
    /\ spc = "selected"
    /\ question = Y2023 \o <<"-", "0", "6">>
    /\ Len(table_names) = 4
    /\ \A i \in 1..4 : HasPeriodSuffix(table_names[i]) /\ BaseName(table_names[i]) = <<"s">>
    /\ relevant = {<<"s">> \o Y2023 \o <<"0", "6">>}

\* C11: for every temporal group of the patterns, when the question holds
\* no date token, what get_relevant_tables selects from the group is exactly
\* its three lexicographically-largest period tables (all of them when the
\* group has fewer than three).
C11_FallbackToRecent ==
    (spc = "selected" /\ DateMatches(question) = <<>>)
        => \A i \in 1..Len(patterns) :
              patterns[i].type = "temporal"
                  => relevant \cap Range(patterns[i].tables)
                         = LastThreeOf(Range(patterns[i].tables))

\* four periods of group "s", a question without a date: the last three
C11_Witness ==
    /\ spc = "selected"
    /\ question = <<"x">>
    /\ Len(table_names) = 4
    /\ \A i \in 1..4 : HasPeriodSuffix(table_names[i]) /\ BaseName(table_names[i]) = <<"s">>
    /\ Len(patterns) = 1 /\ patterns[1].type = "temporal"
    /\ relevant = { <<"s">> \o Y2023 \o <<"0", "6">>, <<"s">> \o Y2023 \o <<"1", "1">>,
                    <<"s">> \o Y2023 \o <<"1", "2">> }

\* C12: every table classified as static is in the set returned by
\* get_relevant_tables, whatever the question, with or without a date token.
C12_StaticAlwaysSelected ==
    spc = "selected"
        => /\ \A i \in 1..Len(patterns) :
                 patterns[i].type = "static" => Range(patterns[i].tables) \subseteq relevant
           /\ \A j \in 1..Len(table_names) :
                 ~HasPeriodSuffix(table_names[j]) => table_names[j] \in relevant

\* a question with a date token, period tables and the static table "c"
C12_Witness ==
    /\ spc = "selected"
    /\ DateMatches(question) # <<>>
    /\ \E j \in 1..Len(table_names) : HasPeriodSuffix(table_names[j])
    /\ \E i \in 1..Len(patterns) : patterns[i].type = "static" /\ patterns[i].key = <<"c">>
    /\ <<"c">> \in relevant
    /\ relevant # Range(table_names)

\* C13: when the per-group selection is empty (empty patterns included), the
\* result is the three lexicographically-last tables of all groups together;
\* in every case the result holds only table names present in the patterns.
C13_EmptySelectionFallback ==
    spc = "selected"
        => /\ SelectLoop(patterns, question) = <<>>
                 => relevant = LastThreeOf(Range(AllTablesOf(patterns)))
           /\ relevant \subseteq Range(AllTablesOf(patterns))

\* two groups, four period tables, a date token that matches none of them:
\* the three last names of all
C13_Witness ==
    /\ spc = "selected"
    /\ Len(patterns) = 2
    /\ Len(table_names) = 4
    /\ DateMatches(question) # <<>>
    /\ SelectLoop(patterns, question) = <<>>
    /\ Cardinality(relevant) = 3
    /\ relevant = LastThreeOf(Range(table_names))

\* the number of pattern entries whose tables list holds the name
EntriesHolding(t) ==
    Cardinality({i \in 1..Len(patterns) : t \in Range(patterns[i].tables)})

\* C15: for a list of distinct table names, every name is in the tables
\* list of exactly one pattern entry, and an entry of type static holds no
\* table with a period suffix.
C15_OneEntryPerName ==
    spc # "ready"
        => /\ \A j \in 1..Len(table_names) : EntriesHolding(table_names[j]) = 1
           /\ \A i \in 1..Len(patterns) :
                 patterns[i].type = "static"
                     => \A k \in 1..Len(patterns[i].tables) :
                           ~HasPeriodSuffix(patterns[i].tables[k])

(***************************************************************************)
(* SpecClassify: analyze_table_name_pattern on every single name of at     *)
(* most MaxNameLen characters, letters and digits                          *)
(***************************************************************************)
MaxNameLen == 8

NameChars == {"s", "1"}

\* the table names: not empty
TableNames == SeqsUpTo(NameChars, MaxNameLen) \ {<<>>}

InitClassify ==
    /\ ChunkIdle
    /\ SessionIdle
    /\ GatherIdle
    /\ ExtractIdle
    /\ RagIdle
    /\ \E name \in TableNames : table_names = <<name>>
    /\ patterns = <<>>
    /\ question = <<>>
    /\ relevant = {}
    /\ spc = "ready"

NextClassify == Analyze

SpecClassify == InitClassify /\ [][NextClassify]_vars

RECURSIVE TrailingDigits(_)
\* how many digits a name ends in
TrailingDigits(t) ==
    IF t = <<>> \/ ~IsDigit(t[Len(t)]) THEN 0
    ELSE 1 + TrailingDigits(SubSeq(t, 1, Len(t) - 1))

\* C16: a name is classified temporal if and only if it ends in exactly six
\* digits (not seven or more), its base name then being everything before
\* those six digits; every other name is classified static.
C16_ExactlySixDigits ==
    (spc = "analyzed" /\ Len(table_names) = 1)
        => LET t == table_names[1]
           IN  IF TrailingDigits(t) = SuffixLen
               THEN patterns = <<[key |-> SubSeq(t, 1, Len(t) - SuffixLen),
                                  type |-> "temporal", tables |-> <<t>>]>>
               ELSE patterns = <<[key |-> t, type |-> "static", tables |-> <<t>>]>>

(***************************************************************************)
(* SpecChunk: chunk_schema on every schema text of at most MaxSchemaLen    *)
(* tokens and every max_chunks in 0..MaxMaxChunks                          *)
(***************************************************************************)
MaxSchemaLen == 6

MaxMaxChunks == 3

SchemaTokens == {"CT", "WS", "x"}

InitChunk ==
    /\ SelectIdle
    /\ SessionIdle
    /\ GatherIdle
    /\ ExtractIdle
    /\ RagIdle
    /\ schema \in SeqsUpTo(SchemaTokens, MaxSchemaLen)
    /\ max_chunks \in 0..MaxMaxChunks
    /\ chunks = <<>>
    /\ cpc = "ready"

\* one call chunk_schema(schema, max_chunks)
ChunkSchema ==
    /\ cpc = "ready"
    /\ chunks' = chunk_schema(schema, max_chunks)
    /\ cpc' = "done"
    /\ UNCHANGED <<schema, max_chunks, svars, session, gvars, xvars, rvars>>

NextChunk == ChunkSchema

SpecChunk == InitChunk /\ [][NextChunk]_vars

\* number of occurrences of the literal 'CREATE TABLE' in the text
TableDefCount(text) == Len(SelectSeq(text, LAMBDA tok : tok = "CT"))

\* the text is a run of table definitions: nothing but whitespace before
\* the first 'CREATE TABLE', and a non-blank body after each of them
ComposedOfTableDefs(text) ==
    LET pieces == SplitCreateTable(text)
    IN  /\ Strip(pieces[1]) = <<>>
        /\ \A i \in 2..Len(pieces) : Strip(pieces[i]) # <<>>

\* C6: for a schema text composed of N table definitions and max_chunks >= 1,
\* the chunks returned by chunk_schema, concatenated in order, are the
\* original text.
C6_ChunkReconstruction ==
    (cpc = "done" /\ max_chunks >= 1 /\ ComposedOfTableDefs(schema))
        => Flatten(chunks) = schema

\* C7: for every schema text and max_chunks >= 1, chunk_schema returns at
\* most max_chunks chunks.
C7_ChunkCountBounded ==
    (cpc = "done" /\ max_chunks >= 1) => Len(chunks) <= max_chunks

\* C8 as claimed: a text of N <= max_chunks table definitions comes back as
\* exactly one chunk, equal to the text.
C8_NoFragmentation_Claimed ==
    (/\ cpc = "done"
     /\ max_chunks >= 1
     /\ ComposedOfTableDefs(schema)
     /\ TableDefCount(schema) <= max_chunks)
        => chunks = <<schema>>

\* C8 (amended): a non-empty text of N <= max_chunks table definitions comes
\* back as exactly one chunk, equal to the text; the empty text comes back
\* as no chunk at all.
C8_NoFragmentation ==
    (/\ cpc = "done"
     /\ max_chunks >= 1
     /\ ComposedOfTableDefs(schema)
     /\ TableDefCount(schema) <= max_chunks)
        => chunks = (IF schema = <<>> THEN <<>> ELSE <<schema>>)

C8_Witness ==
    /\ cpc = "done"
    /\ max_chunks = 2
    /\ ComposedOfTableDefs(schema)
    /\ TableDefCount(schema) = 2
    /\ chunks = <<schema>>

\* the grouping C9 describes: max_chunks groups of consecutive definitions,
\* floor(N / max_chunks) in each but the last, the rest in the last
RECURSIVE TakeDefs(_, _)
TakeDefs(defs, k) ==
    IF k = 0 \/ defs = <<>> THEN <<>>
    ELSE <<Head(defs)>> \o TakeDefs(Tail(defs), k - 1)

RECURSIVE DropDefs(_, _)
DropDefs(defs, k) ==
    IF k = 0 \/ defs = <<>> THEN defs ELSE DropDefs(Tail(defs), k - 1)

RECURSIVE FoldedGroups(_, _, _)
FoldedGroups(defs, size, groups) ==
    IF groups <= 1 THEN <<defs>>
    ELSE <<TakeDefs(defs, size)>> \o FoldedGroups(DropDefs(defs, size), size, groups - 1)

\* C9: with N > max_chunks the chunks are max_chunks groups of consecutive
\* definitions in their order, floor(N / max_chunks) in every group but the
\* last and the remainder folded into the last; every chunk holds the text
\* of the definitions of its group, none split, dropped or duplicated.
C9_GroupsOfEqualCount ==
    (/\ cpc = "done"
     /\ max_chunks >= 1
     /\ ComposedOfTableDefs(schema)
     /\ TableDefCount(schema) > max_chunks)
        => LET defs == CleanChunks(schema)
               want == FoldedGroups(defs, Len(defs) \div max_chunks, max_chunks)
           IN  /\ Len(chunks) = max_chunks
               /\ \A g \in 1..max_chunks :
                     CleanChunks(chunks[g]) = <<Flatten(want[g])>>

(***************************************************************************)
(* src/utils/database.py : get_schema, run_query                           *)
(***************************************************************************)
\* inspector.get_table_names(): the tables of the database, in name order
DbTables ==
    <<"ig", "s202301", "s202306", "s202311", "s202312", "t1", "t2", "t3", "t4">>

\* get_ignored_tables(): the names of the IGNORED_TABLES environment variable
IgnoredTables == {"ig"}

get_all_tables(dbv) == IF dbv = "none" THEN <<>> ELSE DbTables

\* db.get_table_info(table_names=...): one "\nCREATE TABLE <definition>" per
\* table, in name order, joined by "\n\n"; the token named like the table
\* is the text of its definition after the literal
RECURSIVE JoinTableInfo(_)
JoinTableInfo(names) ==
    IF names = <<>> THEN <<>>
    ELSE <<"WS", "CT", Head(names)>>
             \o (IF Tail(names) = <<>> THEN <<>> ELSE <<"WS", "WS">>)
             \o JoinTableInfo(Tail(names))

get_table_info(tables_to_use) ==
    JoinTableInfo(SelectSeq(DbTables, LAMBDA t : t \in Range(tables_to_use)))

\* get_schema without the filter of line 133: the ignore list is not applied
get_schema_NoIgnoreFilter(selected_tables, dbv) ==
    IF dbv = "none" THEN <<"ErrorGettingSchema">>
    ELSE LET available_tables == get_all_tables(dbv)
             tables_to_use ==
                 IF selected_tables # <<>>
                 THEN SelectSeq(selected_tables, LAMBDA t : t \in Range(available_tables))
                 ELSE available_tables
         IN  IF tables_to_use = <<>> THEN <<"NoTablesAvailable">>
             ELSE get_table_info(tables_to_use)

get_schema(selected_tables, dbv) ==
    IF dbv = "none" THEN <<"ErrorGettingSchema">>
    ELSE LET all_tables == get_all_tables(dbv)
             available_tables == SelectSeq(all_tables, LAMBDA t : t \notin IgnoredTables)
             tables_to_use ==
                 IF selected_tables # <<>>
                 THEN SelectSeq(selected_tables, LAMBDA t : t \in Range(available_tables))
                 ELSE available_tables
         IN  IF tables_to_use = <<>> THEN <<"NoTablesAvailable">>
             ELSE get_table_info(tables_to_use)

(***************************************************************************)
(* src/services/rag_service.py : estimate_tokens, MAX_TOKENS               *)
(***************************************************************************)
MAX_TOKENS == 4000

CreateTableLen == 12

\* characters in the definition of one table (columns and sample rows)
TableDefLen == 4000

NoTablesLen == 33

ErrorTextLen == 69

TokLen(tok) ==
    CASE tok = "CT" -> CreateTableLen
      [] tok \in {"WS", "NL"} -> 1
      [] tok = "NoTablesAvailable" -> NoTablesLen
      [] tok = "ErrorGettingSchema" -> ErrorTextLen
      [] OTHER -> TableDefLen

RECURSIVE TextLen(_)
\* len(text)
TextLen(text) == IF text = <<>> THEN 0 ELSE TokLen(Head(text)) + TextLen(Tail(text))

estimate_tokens(text) == TextLen(text) \div 4

(***************************************************************************)
(* src/utils/chatbot.py : generate_sql_chain, generate_response_chain      *)
(***************************************************************************)
\* what the language model may answer to the question -> SQL prompt
SqlTexts == {"SELECT a FROM t1", "SELECT b FROM t1", "DROP TABLE t1"}

LlmError == "LLM_ERROR"

\* format_input: the variables of the question -> SQL prompt
format_input(inp, dbv) ==
    [schema |-> get_schema(inp.selected_tables, dbv),
     question |-> inp.question,
     table_list |-> inp.selected_tables]

\* the query get_default_insights runs for one table
InsightQuery(table) == "SELECT COUNT(*) FROM " \o table

RECURSIVE InsightQueries(_)
InsightQueries(tables) ==
    IF tables = <<>> THEN <<>>
    ELSE <<InsightQuery(Head(tables))>> \o InsightQueries(Tail(tables))

\* run_query(query): db.run(query), any exception re-raised
run_query_raises(dbv, env) == dbv = "none" \/ ~env.run_ok

\* full_chain.invoke({question, query, selected_tables}) of
\* generate_response_chain(sql_chain).  RunnablePassthrough.assign(query =
\* sql_chain) runs the question -> SQL chain on the input and stores its
\* output under "query", whatever "query" the caller passed; run_query gets
\* that stored value.  Returns the exception raised ("none" when none), the
\* prompts sent to the question -> SQL chain, the statements given to
\* run_query, and the answer text.
full_chain_invoke(input, dbv, env) ==
    LET p == format_input(input, dbv)
    IN  IF env.sql2 = LlmError
        THEN [exc |-> "LLMError", sql_prompts |-> <<p>>, executed |-> <<>>,
              text |-> <<>>]
        ELSE IF run_query_raises(dbv, env)
        THEN [exc |-> "DBError", sql_prompts |-> <<p>>, executed |-> <<env.sql2>>,
              text |-> <<>>]
        ELSE IF ~env.answer_ok
        THEN [exc |-> "LLMError", sql_prompts |-> <<p>>,
              executed |-> <<env.sql2>> \o InsightQueries(input.selected_tables),
              text |-> <<>>]
        ELSE [exc |-> "none", sql_prompts |-> <<p>>,
              executed |-> <<env.sql2>> \o InsightQueries(input.selected_tables),
              text |-> env.answer]

(***************************************************************************)
(* src/services/data_processing.py : handle_query_and_response             *)
(***************************************************************************)
\* the list items a payload may hold: two well-formed pairs, a pair whose
\* second element is not a number, a parenthesised string, a bare number
ItemTokens == {"(A,10)", "(B,20.5)", "(D,x)", "(C)", "7"}

\* the (category, number) pair an item token denotes; numbers in tenths
PairOf(tok) ==
    CASE tok = "(A,10)" -> [cat |-> "A", type |-> "int", tenths |-> 100]
      [] tok = "(B,20.5)" -> [cat |-> "B", type |-> "float", tenths |-> 205]
      [] OTHER -> [cat |-> "?", type |-> "none", tenths |-> 0]

\* 'for cat, count in data_list' and float(count) succeed for this item
IsNumericPair(tok) == tok \in {"(A,10)", "(B,20.5)"}

NonBlank(text) == SelectSeq(text, LAMBDA tok : ~IsBlankTok(tok))

\* a payload whose evaluation calls exit(): eval raises SystemExit, which
\* does not derive from Exception
ExitCall == "exit()"

\* eval(data_str): a list display (line breaks allowed inside the brackets),
\* a single expression, a call of exit(), or an exception
EvalPayload(data_str) ==
    LET n == Len(data_str)
        inner == IF n >= 2 THEN NonBlank(SubSeq(data_str, 2, n - 1)) ELSE <<>>
    IN  IF n >= 2 /\ data_str[1] = "[" /\ data_str[n] = "]"
           /\ \A i \in 1..Len(inner) : inner[i] \in ItemTokens
        THEN [kind |-> "list", items |-> inner]
        ELSE IF n = 1 /\ data_str[1] = "7"
        THEN [kind |-> "scalar", items |-> <<>>]
        ELSE IF n = 1 /\ data_str[1] = ExitCall
        THEN [kind |-> "exit", items |-> <<>>]
        ELSE [kind |-> "error", items |-> <<>>]

NoVisualization == [is_none |-> TRUE, rows |-> <<>>]

\* {"Categoria": str(cat), "Cantidad": float(count)}
VizRow(tok) ==
    [Categoria |-> PairOf(tok).cat,
     Cantidad |-> [type |-> "float", tenths |-> PairOf(tok).tenths]]

\* lines 58-78: the DATA: block of the answer.  exc is the exception that
\* leaves the block: the two 'except Exception' of lines 75 and 77 catch
\* what eval and the comprehension raise, except SystemExit
ExtractData(full_response) ==
    IF \E i \in 1..Len(full_response) : full_response[i] = "DATA:"
    THEN LET parts == Split(full_response, "DATA:")
             main_response == parts[1]
             data_str == Strip(parts[2])
             data_list == EvalPayload(data_str)
         IN  IF data_str # <<>> /\ data_list.kind = "exit"
             THEN [response |-> full_response, visualization_data |-> NoVisualization,
                   exc |-> "SystemExit"]
             ELSE IF data_str = <<>> \/ data_list.kind = "error"
             THEN [response |-> full_response, visualization_data |-> NoVisualization,
                   exc |-> "none"]
             ELSE IF data_list.kind = "list" /\ Len(data_list.items) > 0
             THEN IF \A i \in 1..Len(data_list.items) : IsNumericPair(data_list.items[i])
                  THEN [response |-> main_response,
                        visualization_data |->
                            [is_none |-> FALSE,
                             rows |-> [i \in 1..Len(data_list.items) |->
                                          VizRow(data_list.items[i])]],
                        exc |-> "none"]
                  ELSE [response |-> full_response,
                        visualization_data |-> NoVisualization, exc |-> "none"]
             ELSE [response |-> main_response, visualization_data |-> NoVisualization,
                   exc |-> "none"]
    ELSE [response |-> full_response, visualization_data |-> NoVisualization,
          exc |-> "none"]

\* st.session_state.get('rag_enabled', True): no code writes the key
rag_enabled == TRUE

\* the try block, lines 25-101.  exc is the exception that leaves it: the
\* one of the chain, or the one of the DATA: block (lines 58-78) applied to
\* the text the chain returned.
\* With RAG initialised and enabled, line 31 calls process_query_with_rag(
\* question, selected_tables); the function is defined with the one
\* parameter question (rag_service.py:84), so the call raises TypeError and
\* lines 32-42 never run.
TryBlock(quest, selected_tables, rag_init, dbv, env) ==
    LET input == [question |-> quest, selected_tables |-> selected_tables]
    IN  IF rag_init /\ rag_enabled
        THEN [exc |-> "TypeError", query |-> "None", sql_prompts |-> <<>>,
              executed |-> <<>>, text |-> <<>>]
        ELSE IF env.sql1 = LlmError
        THEN [exc |-> "LLMError", query |-> "None",
              sql_prompts |-> <<format_input(input, dbv)>>,
              executed |-> <<>>, text |-> <<>>]
        ELSE LET full == full_chain_invoke(input, dbv, env)
             IN  [exc |-> IF full.exc = "none" THEN ExtractData(full.text).exc
                          ELSE full.exc,
                  query |-> env.sql1,
                  sql_prompts |-> <<format_input(input, dbv)>> \o full.sql_prompts,
                  executed |-> full.executed, text |-> full.text]

\* 'except Exception as e' (line 103): the exceptions of the language
\* model, the database and the call of line 31 derive from Exception;
\* SystemExit does not
Catches(exc) == exc \in {"LLMError", "DBError", "TypeError"}

\* st.session_state.get('last_context', []), lines 86 and 97: the value of
\* the session key, the empty list while the key is absent
SessionContext(last_ctx) == last_ctx

\* the value returned by handle_query_and_response and the record it
\* appends to debug_logs; raised is the exception that leaves the call, which
\* then returns nothing and appends nothing
HandleQuery(quest, selected_tables, rag_init, dbv, last_ctx, env) ==
    LET t == TryBlock(quest, selected_tables, rag_init, dbv, env)
        parsed == ExtractData(t.text)
    IN  IF t.exc = "none"
        THEN [raised |-> "none",
              result |-> [question |-> quest, query |-> t.query,
                          response |-> parsed.response,
                          visualization_data |-> parsed.visualization_data,
                          selected_tables |-> selected_tables,
                          rag_context |-> SessionContext(last_ctx)],
              log |-> <<[kind |-> "response", question |-> quest, query |-> t.query,
                         full_response |-> parsed.response,
                         has_visualization |-> ~parsed.visualization_data.is_none,
                         rag_enabled |-> rag_init,
                         selected_tables |-> selected_tables,
                         rag_context |-> SessionContext(last_ctx)]>>,
              sql_prompts |-> t.sql_prompts, executed |-> t.executed]
        ELSE IF Catches(t.exc)
        THEN [raised |-> "none",
              result |-> [question |-> quest,
                          response |-> <<"Lo siento, hubo un error", t.exc>>,
                          query |-> "None",
                          visualization_data |-> NoVisualization,
                          selected_tables |-> selected_tables,
                          rag_context |-> <<>>],
              log |-> <<[kind |-> "error", question |-> quest, error |-> t.exc,
                         selected_tables |-> selected_tables]>>,
              sql_prompts |-> t.sql_prompts, executed |-> t.executed]
        ELSE [raised |-> t.exc,
              result |-> [question |-> quest],
              log |-> <<>>,
              sql_prompts |-> t.sql_prompts, executed |-> t.executed]

(***************************************************************************)
(* Spec: one session.  src/pages/Home.py : main, initialize_session_state, *)
(* display_table_selection; src/services/rag_service.py :                  *)
(* initialize_rag_components; src/components/query_interface.py :          *)
(* display_query_interface, process_query, display_table_selection,        *)
(* display_model_settings; src/services/state_management.py.               *)
(* A run of main() ends where the code returns or where a rerun requested  *)
(* by the user ends the script, which happens at a display call.           *)
(***************************************************************************)
MaxRequests == 2

\* the question typed by the user
Questions_UI == {"How many orders?"}

\* the selections the sidebar can hand to process_query: never empty, and
\* drawn from every table of the database, ignored ones included
SelectedLists == {<<"t1">>, <<"t1", "t2", "t3", "t4">>}

\* the answer texts the language model may return: prose alone, prose
\* followed by a data list, by a list that is not one of pairs, by a call of
\* exit()
Answers ==
    { <<"p">>,
      <<"p", "NL", "DATA:", "[", "(A,10)", "(B,20.5)", "]">>,
      <<"p", "DATA:", "[", "(C)", "]">>,
      <<"p", "DATA:", ExitCall>> }

\* what the environment does during one request: the two outputs of the
\* question -> SQL model call, whether the database accepts the statement,
\* whether the answer call succeeds and what it returns.  A step that fails
\* ends the request, so the later fields are fixed once one has failed.  The
\* first output is one statement or a failure; the second is any output.
Envs ==
    {e \in [sql1 : {"SELECT a FROM t1", LlmError}, sql2 : SqlTexts \cup {LlmError},
            run_ok : BOOLEAN, answer_ok : BOOLEAN, answer : Answers] :
        /\ e.sql1 = LlmError => e.sql2 = LlmError
        /\ e.sql2 = LlmError => ~e.run_ok
        /\ ~e.run_ok => ~e.answer_ok
        /\ ~e.answer_ok => e.answer = <<"p">>}

Init ==
    /\ ChunkIdle
    /\ SelectIdle
    /\ GatherIdle
    /\ ExtractIdle
    /\ RagIdle
    /\ db \in {"connected", "none"}
    /\ config_key \in BOOLEAN
    /\ api_key = "absent"
    /\ table_info = "absent"
    /\ session_keys = {}
    /\ rag_initialized = FALSE
    /\ vector_store = "none"
    /\ rag_builds = 0
    /\ last_context = <<>>
    /\ history = <<>>
    /\ debug_logs = <<>>
    /\ call = NoCall

\* state_management.store_debug_log, called once by each path of the
\* handler that returns: the list is created when absent, the record is
\* appended
store_debug_log(logs, records) == logs \o records

\* Home.initialize_session_state, lines 55-68: the keys it creates while
\* 'initialized' is absent; a key that exists keeps its value
InitializedKeys ==
    {"history", "debug_logs", "selected_tables", "selected_all",
     "OPENAI_API_KEY", "DB_CONFIG", "initialized"}

\* initialize_rag_components, lines 58-69: the keys a successful build leaves
\* in the session.  StreamlitChatMessageHistory(key="langchain_messages") of
\* line 58 keeps its messages in st.session_state under that key and creates
\* it; lines 66-69 store the four others.  Every failing path returns before
\* line 58.
RagKeys ==
    {"langchain_messages", "vector_store", "conversation_memory",
     "rag_initialized", "docs_loaded"}

\* state_management.initialize_session_state: the keys it creates when absent
\* "llm_<setting>" stands for the keys llm_provider, llm_model_name and
\* llm_temperature: it is present when at least one of them is
StateManagementKeys ==
    {"history", "debug_logs", "OPENAI_API_KEY", "selected_tables", "llm_<setting>"}

\* how many times the body of initialize_rag_components may start
MaxBuilds == 2

\* how far a run of main() gets before it ends, by a return of the code or
\* because a rerun requested by the user ends the script at a display call:
\*   "init"       after initialize_session_state: st.stop() (Home.py:52), the
\*                return of line 160, a rerun at st.spinner (line 164)
\*   "body"       inside the body of initialize_rag_components, before the
\*                key rag_initialized is set: a rerun at st.spinner
\*                (rag_service.py:29) or at the st.warning / st.error of
\*                load_documents and create_vector_store
\*   "head"       after lines 162-165: a rerun at st.tabs or st.markdown, the
\*                return of line 191 (no database connection)
\*   "tables"     in Home.display_table_selection after line 79: no table
\*                (line 84), a rerun at a sidebar widget
\*   "selection"  after line 143: no table selected (line 198), a rerun at
\*                st.markdown (line 201)
\*   "interface"  display_query_interface has created current_question
Levels == {"init", "body", "head", "tables", "selection", "interface"}

\* Home.initialize_session_state, lines 36-72
Home_initialize_session_state(keys, api, cfg) ==
    IF "initialized" \in keys
    THEN [keys |-> keys, api_key |-> api, stopped |-> FALSE]
    ELSE IF ~cfg
    THEN [keys |-> keys, api_key |-> api, stopped |-> TRUE]
    ELSE [keys |-> keys \cup InitializedKeys,
          api_key |-> IF "OPENAI_API_KEY" \in keys THEN api ELSE "set",
          stopped |-> FALSE]

\* the head of main(), lines 152-165: initialize_session_state(), the
\* return when the session holds no API key, then initialize_rag_components()
\* under st.spinner unless rag_initialized is already true; the body of
\* initialize_rag_components runs only while the key is absent, and, when it
\* is not cut short by a rerun, ends with the key set: True with the vector
\* store kept, or False
MainHead(level, build_ok) ==
    LET s0 == Home_initialize_session_state(session_keys, api_key, config_key)
        same == [keys |-> s0.keys, api_key |-> s0.api_key,
                 rag_initialized |-> rag_initialized,
                 vector_store |-> vector_store, rag_builds |-> rag_builds,
                 table_info |-> table_info, reached |-> "init"]
    IN  IF s0.stopped \/ s0.api_key # "set" THEN same
        ELSE IF rag_initialized THEN [same EXCEPT !.reached = "head"]
        ELSE IF level = "init" THEN same
        ELSE IF "rag_initialized" \in s0.keys THEN [same EXCEPT !.reached = "head"]
        ELSE IF level = "body"
        THEN [same EXCEPT !.rag_builds = rag_builds + 1, !.reached = "body"]
        ELSE [same EXCEPT
                !.keys = s0.keys \cup (IF build_ok THEN RagKeys
                                       ELSE {"rag_initialized"}),
                !.rag_initialized = build_ok,
                !.vector_store = IF build_ok THEN "faiss" ELSE vector_store,
                !.rag_builds = rag_builds + 1,
                !.reached = "head"]

\* whether the index build of initialize_rag_components succeeds, when its
\* body runs to its end
BuildOutcomes == IF "rag_initialized" \in session_keys THEN {FALSE} ELSE BOOLEAN

\* st.session_state['table_info'] after line 79 of Home.display_table_selection:
\* get_table_info() is stored when the key is absent; it is {} when the
\* engine is missing or the connection for the counts fails
CachedTableInfo(info, dbv, info_ok) ==
    IF info # "absent" THEN info
    ELSE IF dbv = "connected" /\ info_ok THEN "full" ELSE "empty"

\* a run of main() up to the call of process_query: the session it leaves
\* and how far it got
RunMain(level, build_ok, info_ok) ==
    LET h == MainHead(level, build_ok)
        info == CachedTableInfo(table_info, db, info_ok)
        cached == [h EXCEPT !.keys = h.keys \cup {"table_info"},
                            !.table_info = info]
    IN  IF h.reached # "head" \/ level \in {"init", "body", "head"} THEN h
        ELSE IF info # "full" \/ level = "tables"
        THEN [cached EXCEPT !.reached = "tables"]
        ELSE IF level = "selection"
        THEN [cached EXCEPT !.reached = "selection"]
        ELSE [cached EXCEPT !.keys = cached.keys \cup {"current_question"},
                            !.reached = "interface"]

\* where a run can end in the current session: inside the body only while
\* the body runs (the key rag_initialized is absent), at st.spinner only
\* while it is shown (rag_initialized is not true)
RunLevels ==
    {level \in Levels :
        /\ level = "body" => "rag_initialized" \notin session_keys
        /\ level = "init" => ~rag_initialized}

\* whether get_table_info() gives the tables, when line 79 calls it
InfoOutcomes == IF table_info = "absent" THEN BOOLEAN ELSE {TRUE}

\* a run of main() in which process_query is not called
RerunPage ==
    /\ \E level \in RunLevels, build_ok \in BuildOutcomes, info_ok \in InfoOutcomes :
          LET r == RunMain(level, build_ok, info_ok)
          IN  /\ r.reached = "body" => r.rag_builds < MaxBuilds
              /\ session_keys' = r.keys
              /\ api_key' = r.api_key
              /\ rag_initialized' = r.rag_initialized
              /\ vector_store' = r.vector_store
              /\ rag_builds' = r.rag_builds
              /\ table_info' = r.table_info
    /\ UNCHANGED <<db, config_key, last_context, history, debug_logs, call,
                   cvars, svars, gvars, xvars, rvars>>

\* what happens in process_query between the return of the handler and the
\* append to history (lines 104-136): the result is displayed, the display
\* raises (pd.DataFrame / create_visualization, caught at line 143), or a
\* rerun ends the script at a display call
Renders == {"ok", "raises", "rerun"}

\* handle_query_and_response on every input of the session, computed once:
\* the question, the selection, the session's rag_initialized, the
\* module-level db, the session's last_context, the environment
\* (joined with the empty function so that the table is an explicit one)
HandleQueryTable ==
    [q \in Questions_UI, sel \in SelectedLists, rag_init \in BOOLEAN,
     dbv \in {"connected", "none"}, last_ctx \in {<<>>}, env \in Envs
        |-> HandleQuery(q, sel, rag_init, dbv, last_ctx, env)] @@ <<>>

\* a run of main() in which the user submits a question: the run reaches
\* display_query_interface, which calls process_query(question,
\* selected_tables); process_query calls handle_query_and_response, displays
\* its result and appends it to history.  An exception that leaves the
\* handler is not an Exception: it passes the 'except Exception' of
\* process_query (line 143) and of main (Home.py:215) and ends the run with
\* no record and no history entry.
AskQuestion ==
    /\ Len(debug_logs) < MaxRequests
    /\ \E build_ok \in BuildOutcomes, q \in Questions_UI, sel \in SelectedLists,
          env \in Envs, render \in Renders :
          LET r == RunMain("interface", build_ok, TRUE)
              h == HandleQueryTable[q, sel, r.rag_initialized, db, last_context, env]
          IN  /\ r.reached = "interface"
              /\ render = "raises"
                    => h.raised = "none" /\ ~h.result.visualization_data.is_none
              /\ session_keys' = r.keys
              /\ api_key' = r.api_key
              /\ rag_initialized' = r.rag_initialized
              /\ vector_store' = r.vector_store
              /\ rag_builds' = r.rag_builds
              /\ table_info' = r.table_info
              /\ call' = [active |-> TRUE, question |-> q, selected_tables |-> sel,
                          env_ok |-> /\ env.sql1 # LlmError
                                     /\ env.sql2 # LlmError
                                     /\ env.answer_ok
                                     /\ ~run_query_raises(db, env),
                          rag_used |-> r.rag_initialized /\ rag_enabled,
                          raised |-> h.raised, result |-> h.result,
                          sql_prompts |-> h.sql_prompts, executed |-> h.executed]
              /\ debug_logs' = store_debug_log(debug_logs, h.log)
              /\ history' = IF h.raised = "none" /\ render = "ok"
                            THEN Append(history, h.result)
                            ELSE history
    /\ UNCHANGED <<db, config_key, last_context, cvars, svars, gvars, xvars, rvars>>

\* state_management.initialize_session_state, lines 4-21
initialize_session_state ==
    /\ session_keys' = session_keys \cup StateManagementKeys
    /\ api_key' = IF "OPENAI_API_KEY" \in session_keys THEN api_key ELSE "None"
    /\ UNCHANGED <<db, config_key, table_info, rag_initialized, vector_store,
                   rag_builds, last_context, history, debug_logs, call,
                   cvars, svars, gvars, xvars, rvars>>

\* the session keys of the keyed widgets: a widget created with key= has its
\* value in st.session_state under that key from its creation on.
\* "select_<table>" stands for the checkbox keys of query_interface.py line 41
TableWidgetKeys == {"select_<table>"}

\* "<setting>_widget" stands for the keys provider_select, model_select and
\* temperature_slider of query_interface.py lines 162, 179 and 190
SettingWidgetKeys == {"<setting>_widget"}

\* query_interface.display_table_selection, lines 11-59.  "table_<name>"
\* stands for the keys table_<name> of the tables: it is present when at
\* least one of them is.  The function returns at line 17 when there is no
\* table.  A rerun can end it before any key is written (line 19, 22 or 24);
\* at the second button (line 28), after "Select All" has stored the table
\* keys at line 26; at a checkbox of the loop (line 38), whose key is
\* registered; or not at all, and then line 49 stores the selection.
display_table_selection ==
    /\ \E far \in {"start", "buttons", "loop", "end"} :
          session_keys' =
              IF get_all_tables(db) = <<>> \/ far = "start" THEN session_keys
              ELSE IF far = "buttons" THEN session_keys \cup {"table_<name>"}
              ELSE IF far = "loop"
                   THEN session_keys \cup {"table_<name>"} \cup TableWidgetKeys
              ELSE session_keys \cup {"table_<name>", "selected_tables"}
                                \cup TableWidgetKeys
    /\ UNCHANGED <<db, config_key, api_key, table_info, rag_initialized,
                   vector_store, rag_builds, last_context, history, debug_logs,
                   call, cvars, svars, gvars, xvars, rvars>>

\* query_interface.display_model_settings, lines 147-198: the writes of
\* lines 164, 181 and 192, each after a keyed sidebar widget.  A rerun can
\* end the function before the first widget (line 149 or 155), at the first
\* widget (line 158), whose key is registered and whose setting is not yet
\* written, or later.
display_model_settings ==
    /\ \E far \in {"start", "widget", "written"} :
          session_keys' =
              IF far = "start" THEN session_keys
              ELSE IF far = "widget" THEN session_keys \cup SettingWidgetKeys
              ELSE session_keys \cup SettingWidgetKeys \cup {"llm_<setting>"}
    /\ UNCHANGED <<db, config_key, api_key, table_info, rag_initialized,
                   vector_store, rag_builds, last_context, history, debug_logs,
                   call, cvars, svars, gvars, xvars, rvars>>

Next ==
    \/ RerunPage
    \/ AskQuestion
    \/ initialize_session_state
    \/ display_table_selection
    \/ display_model_settings

Spec == Init /\ [][Next]_vars

(***************************************************************************)
(* Claims about one request                                                *)
(***************************************************************************)
ResultKeys ==
    {"question", "response", "query", "visualization_data", "selected_tables",
     "rag_context"}

\* the call returned the error dictionary of the except branch
ReturnedError == call.raised = "none" /\ call.result.query = "None"

\* C1: no exception leaves handle_query_and_response: whatever fails (the
\* language model, the database query, the RAG step, the parsing of the
\* structured data), the call returns a dictionary with the six result keys.
C1_NoExceptionEscapes ==
    call.active => (call.raised = "none" /\ DOMAIN call.result = ResultKeys)

\* C2: in a call that returns a result, the question -> SQL prompt was sent
\* to the language model exactly once.
C2_OneShotGeneration ==
    (call.active /\ call.raised = "none" /\ ~ReturnedError)
        => Len(call.sql_prompts) = 1

\* the statements among the model outputs that write
WriteStatements == {"DROP TABLE t1"}

\* C3: every statement handed to run_query during a request is read-only.
C3_NoWrites ==
    call.active =>
        \A i \in 1..Len(call.executed) : call.executed[i] \notin WriteStatements

\* C4: a request whose language-model calls and database query succeed gets
\* a non-error result, whatever the RAG state of the session.
C4_RagNeverHardDependency ==
    (call.active /\ call.env_ok) => ~ReturnedError

\* chunk_schema(schema, max_chunks=3) in process_query_with_rag
MaxSchemaChunks == 3

\* the schema text the Bound step allows in the prompt
BoundedSchema(text) ==
    IF estimate_tokens(text) > MAX_TOKENS
    THEN chunk_schema(text, MaxSchemaChunks)[1]
    ELSE text

\* C5: the schema text of every question -> SQL prompt is the schema of the
\* selected tables when its estimate is within MAX_TOKENS, and the first
\* chunk of chunk_schema(schema, 3) when it is above.
C5_BoundStep ==
    call.active =>
        \A i \in 1..Len(call.sql_prompts) :
            call.sql_prompts[i].schema
                = BoundedSchema(get_schema(call.selected_tables, db))

(***************************************************************************)
(* SpecGather: get_schema and the question -> SQL chain called directly,   *)
(* with every selection of at most MaxSelected names, the empty one        *)
(* included                                                                *)
(***************************************************************************)
MaxSelected == 2

\* a name that is not a table of the database
UnknownTable == "zz"

\* the selections a caller can pass: names of the database, ignored ones
\* included, and a name that is no table
GatherSelections == SeqsUpTo(Range(DbTables) \cup {UnknownTable}, MaxSelected)

\* the questions: without a date, with "2023-06"
GatherQuestions == { <<"x">>, Y2023 \o <<"-", "0", "6">> }

\* the inability sentinel of the chunked prompt
NeedMoreChunks == "NEED_MORE_CHUNKS"

\* what the language model may answer to the question -> SQL prompt
SqlOutputs == SqlTexts \cup {NeedMoreChunks}

\* sql_chain.invoke(input): format_input, the prompt, the language model
\* (stop sequence "\nSQLResult:"), StrOutputParser: the string returned is
\* the text of the model
sql_chain_invoke(input, dbv, llm_out) ==
    [prompt |-> format_input(input, dbv), out |-> llm_out]

InitGather ==
    /\ ChunkIdle
    /\ SelectIdle
    /\ db \in {"connected", "none"}
    /\ config_key = FALSE
    /\ api_key = "absent"
    /\ table_info = "absent"
    /\ session_keys = {}
    /\ rag_initialized = FALSE
    /\ vector_store = "none"
    /\ rag_builds = 0
    /\ last_context = <<>>
    /\ history = <<>>
    /\ debug_logs = <<>>
    /\ call = NoCall
    /\ chain_input \in [question : GatherQuestions, selected_tables : GatherSelections]
    /\ schema_text = <<>>
    /\ sql_prompt = <<>>
    /\ sql_out = ""
    /\ gpc = "ready"
    /\ ExtractIdle
    /\ RagIdle

\* one call get_schema(selected_tables)
GetSchema ==
    /\ gpc = "ready"
    /\ schema_text' = get_schema(chain_input.selected_tables, db)
    /\ gpc' = "schema"
    /\ UNCHANGED <<chain_input, sql_prompt, sql_out, cvars, svars, session, xvars, rvars>>

\* one call sql_chain.invoke({question, selected_tables}); when the language
\* model call raises, the exception leaves invoke and nothing is returned
InvokeSqlChain ==
    /\ gpc = "ready"
    /\ \E llm_out \in SqlOutputs \cup {LlmError} :
          LET r == sql_chain_invoke(chain_input, db, llm_out)
          IN  /\ sql_prompt' = <<r.prompt>>
              /\ sql_out' = IF llm_out = LlmError THEN "" ELSE r.out
              /\ gpc' = IF llm_out = LlmError THEN "raised" ELSE "sql"
    /\ UNCHANGED <<chain_input, schema_text, cvars, svars, session, xvars, rvars>>

NextGather == GetSchema \/ InvokeSqlChain

SpecGather == InitGather /\ [][NextGather]_vars

\* the tables a schema text describes: the definitions that follow the
\* literal 'CREATE TABLE'
DescribedTables(text) ==
    {text[i] : i \in {j \in 2..Len(text) : text[j - 1] = "CT"}}

\* the tables the database has and the ignore list does not name
AvailableTables(dbv) == Range(get_all_tables(dbv)) \ IgnoredTables

\* C17: get_schema called with no selected table, on a connected database,
\* returns the 'no tables available' placeholder text and describes no
\* table.
C17_EmptySelectionPlaceholder ==
    (gpc = "schema" /\ db = "connected" /\ chain_input.selected_tables = <<>>)
        => /\ schema_text = <<"NoTablesAvailable">>
           /\ DescribedTables(schema_text) = {}

\* C18: the tables a call of get_schema describes are tables of the
\* database that the ignore list does not name: an ignored table is never
\* described, even when selected, nor is a selected name that is no table.
C18_DescribedSubsetOfAvailable ==
    gpc = "schema"
        => /\ DescribedTables(schema_text) \subseteq AvailableTables(db)
           /\ DescribedTables(schema_text) \cap IgnoredTables = {}
           /\ UnknownTable \notin DescribedTables(schema_text)

\* the ignored table selected together with t1: only t1 is described
C18_Witness ==
    /\ gpc = "schema"
    /\ db = "connected"
    /\ Range(chain_input.selected_tables) = {"ig", "t1"}
    /\ DescribedTables(schema_text) = {"t1"}

\* a table name of the database as the characters the selector reads
CharsOf(name) ==
    CASE name = "ig" -> <<"i", "g">>
      [] name = "s202301" -> <<"s">> \o Y2023 \o <<"0", "1">>
      [] name = "s202306" -> <<"s">> \o Y2023 \o <<"0", "6">>
      [] name = "s202311" -> <<"s">> \o Y2023 \o <<"1", "1">>
      [] name = "s202312" -> <<"s">> \o Y2023 \o <<"1", "2">>
      [] name = "t1" -> <<"t", "1">>
      [] name = "t2" -> <<"t", "2">>
      [] name = "t3" -> <<"t", "3">>
      [] name = "t4" -> <<"t", "4">>
      [] OTHER -> <<"z", "z">>

\* the tables the TableRelevanceSelector picks for a question:
\* get_relevant_tables(analyze_table_name_pattern(get_all_tables()), question)
SelectorTables(q, dbv) ==
    LET names == get_all_tables(dbv)
        pats == analyze_table_name_pattern([i \in 1..Len(names) |-> CharsOf(names[i])])
    IN  {t \in Range(names) : CharsOf(t) \in get_relevant_tables(pats, q)}

\* C19: the schema in the prompt of the question -> SQL chain describes,
\* when the caller passes no selected table, exactly the tables the selector
\* picks for the question (those the ignore list does not name), and when
\* the caller passes tables, exactly those (those that are available).
C19_GatherStep ==
    (gpc = "sql" /\ db = "connected")
        => \A i \in 1..Len(sql_prompt) :
              DescribedTables(sql_prompt[i].schema)
                  = IF chain_input.selected_tables = <<>>
                    THEN SelectorTables(chain_input.question, db) \cap AvailableTables(db)
                    ELSE Range(chain_input.selected_tables) \cap AvailableTables(db)

\* C20: the string returned by the question -> SQL chain is never the
\* inability sentinel NEED_MORE_CHUNKS.
C20_NeverSentinel ==
    gpc = "sql" => sql_out # NeedMoreChunks

(***************************************************************************)
(* Claims about the result of a request and the session                    *)
(***************************************************************************)
\* the database rejected the statement of the request
DatabaseRejected ==
    /\ call.active
    /\ db = "connected"
    /\ call.raised = "none"
    /\ call.result.response = <<"Lo siento, hubo un error", "DBError">>

\* C21: when the database rejects the generated SQL, the result carries a
\* failure message and its query field holds the SQL that failed.
C21_FailedSqlRetained ==
    DatabaseRejected
        => /\ call.result.response[1] = "Lo siento, hubo un error"
           /\ Len(call.executed) = 1
           /\ call.result.query = call.executed[1]

\* C30: in every non-error result the query field is the statement that
\* was given to run_query to produce the rows of the answer.
C30_ReportedSqlIsExecuted ==
    (call.active /\ call.raised = "none" /\ ~ReturnedError)
        => /\ Len(call.executed) >= 1
           /\ call.result.query = call.executed[1]

(***************************************************************************)
(* SpecExtract: the DATA: block of handle_query_and_response (lines 58-78) *)
(* applied to answer texts: prose, the marker, a payload, a tail           *)
(***************************************************************************)
MaxItems == 3

\* the prose before the marker
Proses == { <<>>, <<"p">>, <<"p", "NL">> }

\* what follows the marker: a list display of up to MaxItems items, a bare
\* number, nothing, a list display that is not closed
Payloads ==
    {<<"[">> \o items \o <<"]">> : items \in SeqsUpTo(ItemTokens, MaxItems)}
        \cup { <<"7">>, <<>>, <<"[", "(A,10)">> }

\* what follows the payload: nothing, a blank, more prose on the next line
Tails == { <<>>, <<"WS">>, <<"NL", "p">> }

AnswerTexts ==
    Proses \cup {P \o <<"DATA:">> \o pay \o tail :
                     P \in Proses, pay \in Payloads, tail \in Tails}

InitExtract ==
    /\ ChunkIdle
    /\ SelectIdle
    /\ SessionIdle
    /\ GatherIdle
    /\ RagIdle
    /\ answer_text \in AnswerTexts
    /\ extracted = [response |-> <<>>, visualization_data |-> NoVisualization,
                    exc |-> "none"]
    /\ xpc = "ready"

\* lines 58-78 applied to the text returned by full_chain.invoke
Extract ==
    /\ xpc = "ready"
    /\ extracted' = ExtractData(answer_text)
    /\ xpc' = "done"
    /\ UNCHANGED <<answer_text, cvars, svars, session, gvars, rvars>>

NextExtract == Extract

SpecExtract == InitExtract /\ [][NextExtract]_vars

\* position of the first marker of a text, 0 when it has none
MarkerIndex(text) ==
    IF \E i \in 1..Len(text) : text[i] = "DATA:"
    THEN CHOOSE i \in 1..Len(text) :
             text[i] = "DATA:" /\ \A j \in 1..(i - 1) : text[j] # "DATA:"
    ELSE 0

\* everything before the marker
ProseOf(text) == SubSeq(text, 1, MarkerIndex(text) - 1)

\* a text up to its first newline
FirstLine(text) ==
    IF \E i \in 1..Len(text) : text[i] = "NL"
    THEN SubSeq(text, 1, (CHOOSE i \in 1..Len(text) :
                             text[i] = "NL" /\ \A j \in 1..(i - 1) : text[j] # "NL") - 1)
    ELSE text

\* the payload: the text after the marker up to end-of-string or the next
\* newline, blanks around it dropped
PayloadLine(text) ==
    Strip(FirstLine(SubSeq(text, MarkerIndex(text) + 1, Len(text))))

\* the items of a payload that is a list display
ListItems(pay) == SubSeq(pay, 2, Len(pay) - 1)

\* the payload is a list of (category, number) pairs, possibly none
IsPairList(pay) ==
    /\ Len(pay) >= 2
    /\ pay[1] = "[" /\ pay[Len(pay)] = "]"
    /\ \A i \in 2..(Len(pay) - 1) : IsNumericPair(pay[i])

\* how many pairs a well-formed block of the text holds, -1 when the text
\* has no marker or its payload is not a list of pairs
PairCount(text) ==
    IF MarkerIndex(text) # 0 /\ IsPairList(PayloadLine(text))
    THEN Len(PayloadLine(text)) - 2
    ELSE 0 - 1

\* C22: an answer text without the marker, or whose payload is not a list
\* of at least one (category, number) pair (an empty list, a bare value,
\* items that are not pairs, an unclosed list), is returned unchanged in
\* full and without structured data.
C22_MalformedLeftUntouched ==
    (xpc = "done" /\ PairCount(answer_text) < 1)
        => /\ extracted.visualization_data.is_none
           /\ extracted.response = answer_text

\* C23: a block with exactly one pair yields no visualization data, and
\* visualization data is present only when the block holds at least 2 pairs.
C23_SinglePairExcluded ==
    xpc = "done"
        => /\ (PairCount(answer_text) = 1
                  => extracted.visualization_data.is_none)
           /\ (~extracted.visualization_data.is_none
                  => PairCount(answer_text) >= 2)

\* C24: for prose P, the marker and a list of n >= 2 pairs on the marker's
\* line, extraction returns exactly P as the answer and the same n pairs in
\* the same order as structured data, also when text follows on later lines.
C24_RoundTrip ==
    (xpc = "done" /\ PairCount(answer_text) >= 2)
        => /\ extracted.response = ProseOf(answer_text)
           /\ ~extracted.visualization_data.is_none
           /\ extracted.visualization_data.rows
                  = [i \in 1..PairCount(answer_text)
                        |-> VizRow(ListItems(PayloadLine(answer_text))[i])]

(***************************************************************************)
(* Claims about the state a session keeps across requests                  *)
(***************************************************************************)
\* C25: over any sequence of page reruns and requests the body of
\* initialize_rag_components runs at most once, whether it succeeded or
\* failed, and once it has run the stored vector_store is never replaced.
C25_IndexBuiltOnce ==
    [][/\ rag_builds' <= 1
       /\ (rag_builds >= 1
              => rag_builds' = rag_builds /\ vector_store' = vector_store)]_vars

\* C27: the rag_context of a result holds only passages retrieved during
\* that request and is empty when RAG was not used for it, whatever requests
\* came before.  No request of the program retrieves a passage (the call of
\* line 31 raises before line 34 stores one), so the formula can only say
\* that every reported rag_context is empty.
C27_ContextOfThisRequest ==
    /\ (call.active /\ call.raised = "none") => call.result.rag_context = <<>>
    /\ \A i \in 1..Len(history) : history[i].rag_context = <<>>
    /\ \A i \in 1..Len(debug_logs) :
          debug_logs[i].kind = "response" => debug_logs[i].rag_context = <<>>

\* a step in which process_query handled a request: the handler was called,
\* which is the only way the record of the last call, the debug log or the
\* history changes
RequestStep == call' # call \/ debug_logs' # debug_logs \/ history' # history

\* C28: each request handled by process_query appends exactly one result to
\* history, and no step (a request, a page rerun with its
\* initialize_session_state) removes, reorders or changes an entry.
C28_HistoryAppendOnly ==
    [][/\ Len(history') >= Len(history)
       /\ SubSeq(history', 1, Len(history)) = history
       /\ (RequestStep => /\ Len(history') = Len(history) + 1
                          /\ history'[Len(history')] = call'.result)]_vars

\* C29: every call of handle_query_and_response appends exactly one record
\* to debug_logs, on the success path and on the error path alike, and no
\* step changes or removes a record written earlier.
C29_DebugLogAppendOnly ==
    [][/\ Len(debug_logs') >= Len(debug_logs)
       /\ SubSeq(debug_logs', 1, Len(debug_logs)) = debug_logs
       /\ (RequestStep
              => /\ Len(debug_logs') = Len(debug_logs) + 1
                 /\ debug_logs'[Len(debug_logs')].kind
                        = IF call'.result.query = "None" THEN "error"
                          ELSE "response")]_vars

(***************************************************************************)
(* SpecRag: src/services/rag_service.py : process_query_with_rag(question) *)
(* A document of the vector store is the length of its text; a passage is  *)
(* a prefix of a document: the document's rank and the prefix's length.    *)
(***************************************************************************)
MaxDocs == 3

\* similarity_search(question, k=2)
RetrievalK == 2

\* doc.page_content[:500]
PreviewLen == 500

\* doc_context[:1000] in the prompt: the first 1000 passages of the list
PromptItems == 1000

\* 'context_used': doc_context[:1]
ContextUsedItems == 1

\* lengths of the chunks create_vector_store puts in the store (chunk_size
\* is 1000)
DocLens == {300, 500, 501, 1000}

Least(a, b) == IF a <= b THEN a ELSE b

\* vector_store.similarity_search(question, k): the k best-ranked documents
\* of the store, whole; docs is the store in the order of its ranking for
\* the question
similarity_search(docs, k) ==
    [i \in 1..Least(k, Len(docs)) |-> [doc |-> i, len |-> docs[i]]]

\* the passage handed on whole
Truncate_None(passage) == passage

\* doc.page_content[:500], line 131
Truncate(passage) ==
    [doc |-> passage.doc, len |-> Least(passage.len, PreviewLen)]

\* lines 111-118: the schema, or its first chunk when the estimate is above
\* MAX_TOKENS ("" when chunking gives nothing)
schema_preview(text) ==
    IF estimate_tokens(text) > MAX_TOKENS
    THEN LET schema_chunks == chunk_schema(text, MaxSchemaChunks)
         IN  IF schema_chunks = <<>> THEN <<>> ELSE schema_chunks[1]
    ELSE text

\* process_query_with_rag(question), lines 84-169: what it retrieves, the
\* passages it puts in the prompt, what it saves in the conversation memory
\* and the dictionary it returns
process_query_with_rag(inp, dbv) ==
    IF ~inp.rag_initialized
    THEN [retrieved |-> <<>>, prompt_context |-> <<>>, saved |-> <<>>,
          response |-> [question |-> inp.question, error |-> "RAG not initialized"]]
    ELSE
    LET context == similarity_search(inp.docs, RetrievalK)
        preview == schema_preview(get_schema(inp.selected_tables, dbv))
        doc_context == [i \in 1..Len(context) |-> Truncate(context[i])]
    IN  IF inp.selected_tables = <<>>
        THEN [retrieved |-> context, prompt_context |-> <<>>, saved |-> <<>>,
              response |-> [question |-> inp.question, error |-> "No tables selected",
                            query |-> "SELECT 1"]]
        ELSE IF preview = <<>>
        THEN [retrieved |-> context, prompt_context |-> <<>>, saved |-> <<>>,
              response |-> [question |-> inp.question, error |-> "No schema available",
                            query |-> "SELECT 1"]]
        ELSE IF inp.llm_out = LlmError
        THEN [retrieved |-> context,
              prompt_context |-> SubSeq(doc_context, 1, Least(PromptItems, Len(doc_context))),
              saved |-> <<>>,
              response |-> [question |-> inp.question, error |-> LlmError,
                            query |-> "SELECT 1"]]
        ELSE [retrieved |-> context,
              prompt_context |-> SubSeq(doc_context, 1, Least(PromptItems, Len(doc_context))),
              saved |-> <<[question |-> inp.question, answer |-> inp.llm_out]>>,
              response |-> [question |-> inp.question, query |-> inp.llm_out,
                            context_used |-> SubSeq(doc_context, 1,
                                                Least(ContextUsedItems, Len(doc_context))),
                            chat_history |-> <<[question |-> inp.question,
                                                answer |-> inp.llm_out]>>]]

\* the stores a session can hold: none before initialisation, at least one
\* chunk after it
RagInputs ==
    {inp \in [question : Questions_UI, rag_initialized : BOOLEAN,
              docs : SeqsUpTo(DocLens, MaxDocs),
              selected_tables : {<<>>} \cup SelectedLists,
              llm_out : {"SELECT a FROM t1", LlmError}] :
        inp.rag_initialized <=> inp.docs # <<>>}

InitRag ==
    /\ ChunkIdle
    /\ SelectIdle
    /\ GatherIdle
    /\ ExtractIdle
    /\ db \in {"connected", "none"}
    /\ config_key = FALSE
    /\ api_key = "absent"
    /\ table_info = "absent"
    /\ session_keys = {}
    /\ rag_initialized = FALSE
    /\ vector_store = "none"
    /\ rag_builds = 0
    /\ last_context = <<>>
    /\ history = <<>>
    /\ debug_logs = <<>>
    /\ call = NoCall
    /\ rag_in \in RagInputs
    /\ rag_out = NoRagOutput
    /\ rpc = "ready"

\* one call process_query_with_rag(question)
ProcessQueryWithRag ==
    /\ rpc = "ready"
    /\ rag_out' = process_query_with_rag(rag_in, db)
    /\ rpc' = "done"
    /\ UNCHANGED <<rag_in, cvars, svars, session, gvars, xvars>>

NextRag == ProcessQueryWithRag

SpecRag == InitRag /\ [][NextRag]_vars

\* the passages a call returns to its caller
ReturnedContext ==
    IF "context_used" \in DOMAIN rag_out.response
    THEN rag_out.response.context_used ELSE <<>>

\* C26: every passage handed to the prompt or returned to the caller has at
\* most 500 characters, and at most 2 passages are retrieved per request.
C26_PassagesBounded ==
    rpc = "done"
        => /\ Len(rag_out.retrieved) <= 2
           /\ \A i \in 1..Len(rag_out.prompt_context) :
                 rag_out.prompt_context[i].len <= 500
           /\ \A i \in 1..Len(ReturnedContext) : ReturnedContext[i].len <= 500

\* three chunks longer than the preview in the store: two are retrieved,
\* both reach the prompt cut to the preview length, the first is returned
C26_Witness ==
    /\ rpc = "done"
    /\ Len(rag_in.docs) = 3
    /\ \A i \in 1..3 : rag_in.docs[i] > 500
    /\ Len(rag_out.retrieved) = 2
    /\ rag_out.retrieved[1].len > 500
    /\ Len(rag_out.prompt_context) = 2
    /\ Len(ReturnedContext) = 1
    /\ ReturnedContext[1].len = 500

=============================================================================
